---- MODULE Spec2Model ----
(***************************************************************************)
(* A model of the weblog static-site generator (scripts/build.js) and of   *)
(* its preview server (scripts/serve.js).                                  *)
(*                                                                         *)
(* Spec      : one run of buildSite() against a posts source directory and *)
(*             an output tree, one action per I/O step, each of which may  *)
(*             throw where the Node call it models can throw.              *)
(* IndexSpec : renderIndex's sort applied to bounded lists of Documents.   *)
(* FormatSpec: formatPostDate applied to one frontmatter date.             *)
(* RenderSpec: renderTemplate applied to one template and values map.      *)
(* ParseSpec : parseDocument applied to one discovered file.               *)
(* PageSpec  : the values renderPost, renderIndex, renderAbout and         *)
(*             render404 hand to the page template.                        *)
(* ServeSpec : handleRequest answering one request, one action per         *)
(*             handler and callback, next to a build that may land.        *)
(* ConcurrentSpec: the same for requests in flight together, with every    *)
(*             pending callback eventually run.                            *)
(***************************************************************************)
EXTENDS Integers, Sequences, FiniteSets, TLC

VARIABLES
    postsDirExists, \* writing/posts exists
    srcFiles,       \* paths of the files below writing/posts
    srcDate,        \* frontmatter date of each file (a DateValue); read of posts only
    pubDirs,        \* directories of the output tree (paths)
    pubFiles,       \* files of the output tree: path -> content
    pc,             \* the statement of buildSite() in progress
    phase,          \* the call in progress inside that statement
    i,              \* index of the map / forEach callback in progress
    postFiles,      \* buildSite's postFiles
    posts,          \* buildSite's posts
    html,           \* the rendered page about to be written
    sortedPosts,    \* renderIndex's sortedPosts, as last computed
    log,            \* what the run has done so far, in order
    failed,         \* an exception has left buildSite()
    call            \* a call of one template-engine function: arguments, result

vars == <<postsDirExists, srcFiles, srcDate, pubDirs, pubFiles, pc, phase, i,
          postFiles, posts, html, sortedPosts, log, failed, call>>

(***************************************************************************)
(* Bounds of the model.                                                    *)
(***************************************************************************)
\* Largest number of entries in the posts source directory.
MaxEntries == 2
\* Largest number of Documents handed to the index sort in IndexSpec.
MaxSortLen == 3
\* Timestamps of parseable dates range over -MaxTime .. MaxTime (0 = epoch).
MaxTime == 2

(***************************************************************************)
(* Configuration constants of build.js.                                    *)
(***************************************************************************)
PUBLIC_DIR == "public"
POSTS_SUBDIR == "posts"

\* What the posts source directory may hold, as paths below it: files
\* directly inside and a file in a subdirectory.
EntryNames == {"a.md", "b.md", ".md", ".md.md", "notes.txt", "drafts/c.md"}

(***************************************************************************)
(* Strings and paths.                                                      *)
(***************************************************************************)
\* String.prototype.endsWith
EndsWith(s, ext) ==
    /\ Len(s) >= Len(ext)
    /\ SubSeq(s, Len(s) - Len(ext) + 1, Len(s)) = ext

\* path.basename(dir + "/" + name, ext): the suffix is cut only when
\* something is left in front of it.
Basename(name, ext) ==
    IF EndsWith(name, ext) /\ Len(name) > Len(ext)
    THEN SubSeq(name, 1, Len(name) - Len(ext))
    ELSE name

\* The first segment of a path below a directory: the entry of the directory
\* the path goes through.
RECURSIVE DirectName(_, _)
DirectName(s, p) ==
    IF p > Len(s) THEN s
    ELSE IF SubSeq(s, p, p) = "/" THEN SubSeq(s, 1, p - 1)
    ELSE DirectName(s, p + 1)

RECURSIVE NormSegs(_, _)
\* path.normalize on segments: "." is dropped, ".." climbs one level.
NormSegs(segs, acc) ==
    IF segs = <<>> THEN acc
    ELSE LET h == Head(segs) IN
         IF h = "." \/ h = "" THEN NormSegs(Tail(segs), acc)
         ELSE IF h = ".." /\ acc # <<>>
              THEN NormSegs(Tail(segs), SubSeq(acc, 1, Len(acc) - 1))
              ELSE NormSegs(Tail(segs), Append(acc, h))

RECURSIVE JoinSegs(_)
JoinSegs(segs) ==
    IF segs = <<>> THEN "."
    ELSE IF Len(segs) = 1 THEN segs[1]
    ELSE segs[1] \o "/" \o JoinSegs(Tail(segs))

\* path.join(...segs)
PathJoin(segs) == JoinSegs(NormSegs(segs, <<>>))

\* The directories path.join(...segs) lies in, nearest last.
Ancestors(segs) ==
    LET n == NormSegs(segs, <<>>) IN
    { JoinSegs(SubSeq(n, 1, k)) : k \in 1 .. (Len(n) - 1) }

(***************************************************************************)
(* Frontmatter dates.  A DateValue is what data.date can be: absent, a     *)
(* value that parses as a date (t: its time value), or text that does not. *)
(***************************************************************************)
Absent == [kind |-> "absent", t |-> 0]
DateAt(t) == [kind |-> "date", t |-> t]
BadText == [kind |-> "text", t |-> 0]

Times == (0 - MaxTime) .. MaxTime
DateValues == {Absent, BadText} \cup { DateAt(t) : t \in Times }

\* new Date(doc.date || 0).getTime(): nan for an Invalid Date.
TimeValue(d) ==
    CASE d.kind = "absent" -> [nan |-> FALSE, t |-> 0]
      [] d.kind = "date"   -> [nan |-> FALSE, t |-> d.t]
      [] OTHER             -> [nan |-> TRUE, t |-> 0]

(***************************************************************************)
(* Documents.                                                              *)
(***************************************************************************)
\* marked.parse of the file's markdown: each source file has a body of its own.
BodyOf(file) == "<body of " \o file \o ">"

\* parseDocument(filePath): the fields the pipeline below reads.  date is
\* data.date || '', which leaves every DateValue as it is.
ParseDocument(file) ==
    [ slug |-> Basename(file, ".md"),
      date |-> srcDate[file],
      body |-> BodyOf(file) ]

\* getFilesWithExtension's filter.
HasExtension(file, ext) == EndsWith(file, ext)

(***************************************************************************)
(* renderIndex's sort.                                                     *)
(***************************************************************************)
\* SortCompare with the operands of the subtraction swapped.
SortCompareOldestFirst(a, b) ==
    LET ta == TimeValue(a.date)
        tb == TimeValue(b.date)
    IN  IF ta.nan \/ tb.nan THEN [nan |-> TRUE, v |-> 0]
        ELSE [nan |-> FALSE, v |-> ta.t - tb.t]

\* The comparator (a, b) => dateB - dateA: NaN when either is an Invalid Date.
SortCompare(a, b) ==
    LET ta == TimeValue(a.date)
        tb == TimeValue(b.date)
    IN  IF ta.nan \/ tb.nan THEN [nan |-> TRUE, v |-> 0]
        ELSE [nan |-> FALSE, v |-> tb.t - ta.t]

\* What Array.prototype.sort makes of the comparator's result: NaN is +0.
Order(a, b) ==
    LET c == SortCompare(a, b) IN IF c.nan THEN 0 ELSE c.v

\* ECMAScript's "consistent comparator" for the elements of s.
Consistent(s) ==
    LET E == { s[k] : k \in 1 .. Len(s) } IN
    /\ \A a, b \in E : (Order(a, b) = 0) = (Order(b, a) = 0)
    /\ \A a, b \in E : (Order(a, b) < 0) = (Order(b, a) > 0)
    /\ \A a, b, c \in E :
          /\ (Order(a, b) = 0 /\ Order(b, c) = 0) => Order(a, c) = 0
          /\ (Order(a, b) < 0 /\ Order(b, c) < 0) => Order(a, c) < 0
          /\ (Order(a, b) > 0 /\ Order(b, c) > 0) => Order(a, c) > 0

\* x put into the sorted acc behind everything that does not sort after it.
InsertSorted(acc, x) ==
    LET later == { k \in 1 .. Len(acc) : Order(acc[k], x) > 0 }
        at == IF later = {} THEN Len(acc) + 1
              ELSE CHOOSE k \in later : \A m \in later : k <= m
    IN  SubSeq(acc, 1, at - 1) \o <<x>> \o SubSeq(acc, at, Len(acc))

RECURSIVE StableSortFrom(_, _)
StableSortFrom(s, acc) ==
    IF s = <<>> THEN acc
    ELSE StableSortFrom(Tail(s), InsertSorted(acc, Head(s)))

\* The stable sort ECMAScript requires under a consistent comparator.
StableSort(s) == StableSortFrom(s, <<>>)

Rearrangements(s) ==
    LET n == Len(s)
        P == { p \in [1 .. n -> 1 .. n] : \A a, b \in 1 .. n : a # b => p[a] # p[b] }
    IN  { [k \in 1 .. n |-> s[p[k]]] : p \in P }

\* [...posts].sort(comparator): the stable order under a consistent
\* comparator; otherwise the order is implementation-defined.
SortOutcomes(s) ==
    IF Consistent(s) THEN {StableSort(s)} ELSE Rearrangements(s)

\* PostLink pointing at a flat posts/<slug>.html page.
PostLinkFlat(doc) == "posts/" \o doc.slug \o ".html"

\* The href of a post's entry in the index list.
PostLink(doc) == "posts/" \o doc.slug \o "/"

\* The index page as far as the model reads it: its entries, in order.
IndexPage(sorted) == <<"index">> \o [k \in 1 .. Len(sorted) |-> PostLink(sorted[k])]

\* renderPost(doc)
PostPage(doc) == <<"post", doc.body>>

AboutPage == <<"about">>
NotFoundPage == <<"404">>
StalePage == <<"stale">>
AssetBytes(name) == <<"asset", name>>

(***************************************************************************)
(* The file system calls of build.js.                                      *)
(***************************************************************************)
\* fs.existsSync(path)
Exists(path) == path \in pubDirs \/ path \in DOMAIN pubFiles

\* ensureDir(path.join(...segs)): mkdirSync with recursive: true, only when
\* nothing exists at the path.
EnsureDir(dirs, segs) ==
    IF Exists(PathJoin(segs)) THEN dirs
    ELSE dirs \cup Ancestors(segs) \cup {PathJoin(segs)}

\* writeFileSync / copyFileSync need the directory to be there, and the
\* target not to be a directory.
CanWrite(segs) ==
    /\ Ancestors(segs) \subseteq pubDirs
    /\ PathJoin(segs) \notin pubDirs

\* WriteFile starting from an output tree wiped clean.
WriteFileFresh(files, path, content) == [ q \in {path} |-> content ]

\* The files after fs.writeFileSync(path, content): created or overwritten.
WriteFile(files, path, content) ==
    [ q \in DOMAIN files \cup {path} |-> IF q = path THEN content ELSE files[q] ]

\* CopyFile that copies nothing.
CopyFileSkipped(files, name, dest) == files

\* The files after fs.copyFileSync(theme/name, dest).
CopyFile(files, name, dest) ==
    [ q \in DOMAIN files \cup {dest} |-> IF q = dest THEN AssetBytes(name) ELSE files[q] ]

\* path.join(PUBLIC_DIR, POSTS_SUBDIR, doc.slug)
PostDir(slug) == <<PUBLIC_DIR, POSTS_SUBDIR, slug>>

\* PostOutput writing a bare <slug>.html.
PostOutputBare(slug) == <<PUBLIC_DIR, POSTS_SUBDIR, slug \o ".html">>

\* path.join(postDir, 'index.html')
PostOutput(slug) == PostDir(slug) \o <<"index.html">>

\* The output file of each main page and static asset.
RootOutput(name) == <<PUBLIC_DIR, name>>

(***************************************************************************)
(* buildSite(): its statements in order, and what an exception does.       *)
(***************************************************************************)
\* BuildOrder with the index assembled before the posts are rendered.
BuildOrderIndexFirst ==
    << "ensure_root", "ensure_posts", "discover", "parse", "index", "posts",
       "about", "notfound",
       "copy_css", "copy_js", "copy_icon", "complete" >>

BuildOrder ==
    << "ensure_root", "ensure_posts", "discover", "parse", "posts",
       "index", "about", "notfound",
       "copy_css", "copy_js", "copy_icon", "complete" >>

\* The statement after stmt.
After(stmt) ==
    LET k == CHOOSE n \in 1 .. Len(BuildOrder) : BuildOrder[n] = stmt
    IN  IF k = Len(BuildOrder) THEN "done" ELSE BuildOrder[k + 1]

\* Thrown with the exception caught and the statement carried on with.
ThrownSwallowed(stmt) == stmt

\* Where control is once a call made by statement stmt has thrown: nothing
\* in buildSite catches, so the exception leaves it.
Thrown(stmt) == "aborted"

\* FilesAfterThrow removing what the run has written.
FilesRolledBack(files) ==
    LET written == { log[n].path : n \in { m \in 1 .. Len(log) : log[m].op \in {"write", "copy"} } }
    IN  [ q \in (DOMAIN files) \ written |-> files[q] ]

\* The output files once an exception has left buildSite(): nothing catches
\* it there, so nothing is cleaned up.
FilesAfterThrow(files) == files

\* LoopDone stopping one element early.
LoopDoneEarly(idx, n) == idx >= n

\* The map / forEach over n elements is over once idx has passed the last.
LoopDone(idx, n) == idx > n

Ev(op, path, src) == [op |-> op, path |-> path, src |-> src]

\* A call of the statement in progress throws.
Throw(what) ==
    /\ failed' = TRUE
    /\ log' = Append(log, Ev("throw", what, ""))
    /\ pc' = Thrown(pc)
    /\ pubFiles' = FilesAfterThrow(pubFiles)
    /\ UNCHANGED <<call, postsDirExists, srcFiles, srcDate, pubDirs, phase,
                   i, postFiles, posts, html, sortedPosts>>

(***************************************************************************)
(* Initial states of a run of buildSite().                                 *)
(***************************************************************************)
\* No template-engine function is being examined on its own.
NoCall == [fn |-> "none"]

\* Frontmatter dates of the entries in Spec: one of each kind.
BuildDates == {Absent, BadText, DateAt(1)}

\* An output tree left by an earlier build.
StaleDirs == { "public", "public/posts", "public/posts/a", "public/posts/gone" }
StaleFiles ==
    [ q \in { "public/index.html", "public/posts/a/index.html",
              "public/posts/gone/index.html" } |-> StalePage ]

Init ==
    /\ postsDirExists \in BOOLEAN
    /\ srcFiles \in { S \in SUBSET EntryNames : Cardinality(S) <= MaxEntries }
    /\ postsDirExists = FALSE => srcFiles = {}
    /\ srcDate \in [srcFiles -> BuildDates]
    /\ \A f \in srcFiles : ~HasExtension(DirectName(f, 1), ".md") => srcDate[f] = Absent
    /\ \/ pubDirs = {} /\ pubFiles = <<>>
       \/ pubDirs = StaleDirs /\ pubFiles = StaleFiles
    /\ pc = "ensure_root"
    /\ phase = "render"
    /\ i = 1
    /\ postFiles = <<>>
    /\ posts = <<>>
    /\ html = <<>>
    /\ sortedPosts = <<>>
    /\ log = <<>>
    /\ failed = FALSE
    /\ call = NoCall

(***************************************************************************)
(* The steps of buildSite().                                               *)
(***************************************************************************)
\* [1/5] ensureDir(PUBLIC_DIR)
EnsureRoot ==
    /\ pc = "ensure_root"
    /\ \/ /\ pubDirs' = EnsureDir(pubDirs, <<PUBLIC_DIR>>)
          /\ log' = Append(log, Ev("ensureDir", PathJoin(<<PUBLIC_DIR>>), ""))
          /\ pc' = After(pc)
          /\ UNCHANGED <<call, postsDirExists, srcFiles, srcDate, pubFiles, phase, i,
                         postFiles, posts, html, sortedPosts, failed>>
       \/ /\ ~Exists(PathJoin(<<PUBLIC_DIR>>))
          /\ Throw("mkdir")

\* [1/5] ensureDir(path.join(PUBLIC_DIR, POSTS_SUBDIR))
EnsurePosts ==
    /\ pc = "ensure_posts"
    /\ \/ /\ pubDirs' = EnsureDir(pubDirs, <<PUBLIC_DIR, POSTS_SUBDIR>>)
          /\ log' = Append(log, Ev("ensureDir", PathJoin(<<PUBLIC_DIR, POSTS_SUBDIR>>), ""))
          /\ pc' = After(pc)
          /\ UNCHANGED <<call, postsDirExists, srcFiles, srcDate, pubFiles, phase, i,
                         postFiles, posts, html, sortedPosts, failed>>
       \/ /\ ~Exists(PathJoin(<<PUBLIC_DIR, POSTS_SUBDIR>>))
          /\ Throw("mkdir")

\* The paths of everything below the directory, as a recursive walk yields.
ReadDirRecursive(S) == S

\* fs.readdirSync(dir): the names of the entries directly inside.
ReadDir(S) == { DirectName(f, 1) : f \in S }

\* The orders fs.readdirSync may list the set S in.
Listings(S) ==
    { l \in [1 .. Cardinality(S) -> S] :
        \A a, b \in 1 .. Cardinality(S) : a # b => l[a] # l[b] }

\* [2/5] postFiles = getFilesWithExtension(postsDir, '.md')
Discover ==
    /\ pc = "discover"
    /\ \/ /\ \E l \in Listings({ f \in ReadDir(srcFiles) : HasExtension(f, ".md") }) :
                postFiles' = (IF postsDirExists THEN l ELSE <<>>)
          /\ log' = Append(log, Ev("found", "", ""))
          /\ pc' = After(pc)
          /\ i' = 1
          /\ UNCHANGED <<call, postsDirExists, srcFiles, srcDate, pubDirs, pubFiles,
                         phase, posts, html, sortedPosts, failed>>
       \/ /\ postsDirExists
          /\ Throw("readdir")

\* [2/5] one callback of postFiles.map: parseDocument(filePath)
ParsePost ==
    /\ pc = "parse"
    /\ ~LoopDone(i, Len(postFiles))
    /\ \/ /\ posts' = Append(posts, ParseDocument(postFiles[i]))
          /\ log' = Append(log, Ev("parse", "", postFiles[i]))
          /\ i' = i + 1
          /\ UNCHANGED <<call, postsDirExists, srcFiles, srcDate, pubDirs, pubFiles,
                         pc, phase, postFiles, html, sortedPosts, failed>>
       \/ Throw("parseDocument")

\* postFiles.map returns.
ParseEnd ==
    /\ pc = "parse"
    /\ LoopDone(i, Len(postFiles))
    /\ pc' = After(pc)
    /\ i' = 1
    /\ UNCHANGED <<call, postsDirExists, srcFiles, srcDate, pubDirs, pubFiles, phase,
                   postFiles, posts, html, sortedPosts, log, failed, call>>

\* [3/5] html = renderPost(doc): loads base.html and post.html
RenderPost ==
    /\ pc = "posts"
    /\ phase = "render"
    /\ ~LoopDone(i, Len(posts))
    /\ \/ /\ html' = PostPage(posts[i])
          /\ phase' = "ensure"
          /\ UNCHANGED <<call, postsDirExists, srcFiles, srcDate, pubDirs, pubFiles,
                         pc, i, postFiles, posts, sortedPosts, log, failed>>
       \/ Throw("loadTemplate")

\* [3/5] ensureDir(postDir)
EnsurePostDir ==
    /\ pc = "posts"
    /\ phase = "ensure"
    /\ \/ /\ pubDirs' = EnsureDir(pubDirs, PostDir(posts[i].slug))
          /\ log' = Append(log, Ev("ensureDir", PathJoin(PostDir(posts[i].slug)), postFiles[i]))
          /\ phase' = "write"
          /\ UNCHANGED <<call, postsDirExists, srcFiles, srcDate, pubFiles, pc, i,
                         postFiles, posts, html, sortedPosts, failed>>
       \/ /\ ~Exists(PathJoin(PostDir(posts[i].slug)))
          /\ Throw("mkdir")

\* [3/5] writeFile(outputPath, html)
WritePost ==
    /\ pc = "posts"
    /\ phase = "write"
    /\ \/ /\ CanWrite(PostOutput(posts[i].slug))
          /\ pubFiles' = WriteFile(pubFiles, PathJoin(PostOutput(posts[i].slug)), html)
          /\ log' = Append(log, Ev("write", PathJoin(PostOutput(posts[i].slug)), postFiles[i]))
          /\ phase' = "render"
          /\ i' = i + 1
          /\ UNCHANGED <<call, postsDirExists, srcFiles, srcDate, pubDirs, pc,
                         postFiles, posts, html, sortedPosts, failed>>
       \/ Throw("writeFile")

\* posts.forEach returns.
PostsEnd ==
    /\ pc = "posts"
    /\ phase = "render"
    /\ LoopDone(i, Len(posts))
    /\ pc' = After(pc)
    /\ i' = 1
    /\ UNCHANGED <<call, postsDirExists, srcFiles, srcDate, pubDirs, pubFiles, phase,
                   postFiles, posts, html, sortedPosts, log, failed, call>>

\* [4/5] renderIndex(posts): loads its templates, sorts, renders the list
RenderIndex ==
    /\ pc = "index"
    /\ phase = "render"
    /\ \/ /\ \E sorted \in SortOutcomes(posts) :
                /\ sortedPosts' = sorted
                /\ html' = IndexPage(sorted)
          /\ log' = Append(log, Ev("renderIndex", "", ""))
          /\ phase' = "write"
          /\ UNCHANGED <<call, postsDirExists, srcFiles, srcDate, pubDirs, pubFiles,
                         pc, i, postFiles, posts, failed>>
       \/ Throw("loadTemplate")

\* The main pages other than the index, and the page each is rendered to.
MainPages == {"about", "notfound"}
MainFile(stmt) ==
    CASE stmt = "index" -> "index.html"
      [] stmt = "about" -> "about.html"
      [] stmt = "notfound" -> "404.html"
MainPage(stmt) == IF stmt = "about" THEN AboutPage ELSE NotFoundPage

\* [4/5] renderAbout() / render404()
RenderMain ==
    /\ pc \in MainPages
    /\ phase = "render"
    /\ \/ /\ html' = MainPage(pc)
          /\ phase' = "write"
          /\ UNCHANGED <<call, postsDirExists, srcFiles, srcDate, pubDirs, pubFiles,
                         pc, i, postFiles, posts, sortedPosts, log, failed>>
       \/ Throw("loadTemplate")

\* [4/5] writeFile(path.join(PUBLIC_DIR, <page>), <rendered page>)
WriteMain ==
    /\ pc \in MainPages \cup {"index"}
    /\ phase = "write"
    /\ \/ /\ CanWrite(RootOutput(MainFile(pc)))
          /\ pubFiles' = WriteFile(pubFiles, PathJoin(RootOutput(MainFile(pc))), html)
          /\ log' = Append(log, Ev("write", PathJoin(RootOutput(MainFile(pc))), ""))
          /\ phase' = "render"
          /\ pc' = After(pc)
          /\ UNCHANGED <<call, postsDirExists, srcFiles, srcDate, pubDirs, i,
                         postFiles, posts, html, sortedPosts, failed>>
       \/ Throw("writeFile")

\* The static asset each copy statement copies.
AssetOf(stmt) ==
    CASE stmt = "copy_css" -> "styles.css"
      [] stmt = "copy_js" -> "script.js"
      [] stmt = "copy_icon" -> "favicon.svg"
CopyStmts == {"copy_css", "copy_js", "copy_icon"}

\* [5/5] copyFile(path.join(THEME_DIR, <asset>), path.join(PUBLIC_DIR, <asset>))
CopyAsset ==
    /\ pc \in CopyStmts
    /\ \/ /\ CanWrite(RootOutput(AssetOf(pc)))
          /\ pubFiles' = CopyFile(pubFiles, AssetOf(pc), PathJoin(RootOutput(AssetOf(pc))))
          /\ log' = Append(log, Ev("copy", PathJoin(RootOutput(AssetOf(pc))), ""))
          /\ pc' = After(pc)
          /\ UNCHANGED <<call, postsDirExists, srcFiles, srcDate, pubDirs, phase, i,
                         postFiles, posts, html, sortedPosts, failed>>
       \/ Throw("copyFile")

\* console.log('BUILD COMPLETE!')
Complete ==
    /\ pc = "complete"
    /\ log' = Append(log, Ev("complete", "", ""))
    /\ pc' = After(pc)
    /\ UNCHANGED <<call, postsDirExists, srcFiles, srcDate, pubDirs, pubFiles, phase,
                   i, postFiles, posts, html, sortedPosts, failed>>

Next ==
    \/ EnsureRoot
    \/ EnsurePosts
    \/ Discover
    \/ ParsePost
    \/ ParseEnd
    \/ RenderPost
    \/ EnsurePostDir
    \/ WritePost
    \/ PostsEnd
    \/ RenderIndex
    \/ RenderMain
    \/ WriteMain
    \/ CopyAsset
    \/ Complete

Spec == Init /\ [][Next]_vars

(***************************************************************************)
(* IndexSpec: renderIndex(posts) called on any list of at most MaxSortLen  *)
(* Documents, post k having slug "p<k>" and any DateValue as its date.     *)
(***************************************************************************)
DocAt(k, d) == [slug |-> "p" \o ToString(k), date |-> d, body |-> BodyOf("p" \o ToString(k))]

SortInputs ==
    UNION { { [k \in 1 .. n |-> DocAt(k, ds[k])] : ds \in [1 .. n -> DateValues] } :
            n \in 0 .. MaxSortLen }

IndexInit ==
    /\ postsDirExists = TRUE
    /\ srcFiles = {}
    /\ srcDate = <<>>
    /\ pubDirs = {}
    /\ pubFiles = <<>>
    /\ pc = "index"
    /\ phase = "render"
    /\ i = 1
    /\ postFiles = <<>>
    /\ posts \in SortInputs
    /\ html = <<>>
    /\ sortedPosts = <<>>
    /\ log = <<>>
    /\ failed = FALSE
    /\ call = NoCall

IndexNext == RenderIndex

IndexSpec == IndexInit /\ [][IndexNext]_vars

(***************************************************************************)
(* Properties of the index listing (IndexSpec).                            *)
(***************************************************************************)
\* renderIndex has returned its page, which lists Len(html) - 1 entries.
IndexRendered == pc = "index" /\ phase = "write"
Entries == 1 .. (Len(html) - 1)

\* The post the k-th entry of the rendered list links to.
ListedPost(k) ==
    CHOOSE d \in { posts[n] : n \in 1 .. Len(posts) } : PostLink(d) = html[k + 1]

KindsOf(s) == { s[n].date.kind : n \in 1 .. Len(s) }

\* C8: when every post has a parseable date, the index lists the posts
\* newest first: an entry's date is never earlier than that of a later entry.
C8_NewestFirst ==
    (IndexRendered /\ KindsOf(posts) \subseteq {"date"}) =>
        \A a, b \in Entries :
            a < b => ListedPost(a).date.t >= ListedPost(b).date.t

\* Three dated posts, handed over oldest first, have been listed.
C8_Witness ==
    /\ IndexRendered
    /\ Len(posts) = 3
    /\ KindsOf(posts) = {"date"}
    /\ posts[1].date.t < posts[2].date.t
    /\ posts[2].date.t < posts[3].date.t
    /\ ListedPost(1) = posts[3]

\* C9: every post with an absent date is listed after every post with a
\* parseable date, whatever that date is.  Stated for lists that hold no
\* unparseable date, where the comparator orders every pair.
C9_AbsentAfterDated ==
    (IndexRendered /\ KindsOf(posts) \subseteq {"absent", "date"}) =>
        \A a, b \in Entries :
            (ListedPost(a).date.kind = "absent" /\ ListedPost(b).date.kind = "date")
                => b < a

\* C10: every post whose date is present but unparseable is listed after
\* every post with a parseable date, and the posts with parseable dates stay
\* newest first.  Stated for lists on which the comparator is consistent, so
\* that the language fixes the order the sort returns.
C10_UnparseableAfterDated ==
    (IndexRendered /\ Consistent(posts)) =>
        /\ \A a, b \in Entries :
              (ListedPost(a).date.kind = "text" /\ ListedPost(b).date.kind = "date")
                  => b < a
        /\ \A a, b \in Entries :
              (a < b /\ ListedPost(a).date.kind = "date"
                     /\ ListedPost(b).date.kind = "date")
                  => ListedPost(a).date.t >= ListedPost(b).date.t

(***************************************************************************)
(* Properties of a run of buildSite() (Spec).                              *)
(***************************************************************************)
LogIdx == 1 .. Len(log)
Discovered == 1 .. Len(postFiles)
Did(op) == \E n \in LogIdx : log[n].op = op
Completed == pc = "done"

\* The events that put a file into the output tree, and those for post pages.
IsOutput(e) == e.op \in {"write", "copy"}
IsPostWrite(e) == e.op = "write" /\ e.src # ""
IsRootWrite(e, name) == e.op = "write" /\ e.src = "" /\ e.path = "public/" \o name

\* The slug of a post source file as its Document carries it.
SlugOf(file) == Basename(file, ".md")

C2_FixedOrder ==
    /\ \A n \in LogIdx :
          IsOutput(log[n]) =>
              /\ \E m \in 1 .. (n - 1) : log[m] = Ev("ensureDir", "public", "")
              /\ \E m \in 1 .. (n - 1) : log[m] = Ev("ensureDir", "public/posts", "")
    /\ \A n \in LogIdx :
          IsPostWrite(log[n]) =>
              \A k \in Discovered :
                  \E m \in 1 .. (n - 1) : log[m] = Ev("parse", "", postFiles[k])
    /\ \A m, n \in LogIdx :
          (log[m].op = "parse" /\ IsPostWrite(log[n])) => m < n
    /\ \A n \in LogIdx :
          IsRootWrite(log[n], "index.html") =>
              /\ \A k \in Discovered :
                    \E m \in 1 .. (n - 1) :
                        IsPostWrite(log[m]) /\ log[m].src = postFiles[k]
              /\ \A m \in LogIdx : IsPostWrite(log[m]) => m < n
    /\ \A n \in LogIdx :
          IsRootWrite(log[n], "about.html") =>
              \E m \in 1 .. (n - 1) : IsRootWrite(log[m], "index.html")
    /\ \A n \in LogIdx :
          IsRootWrite(log[n], "404.html") =>
              \E m \in 1 .. (n - 1) : IsRootWrite(log[m], "about.html")
    /\ \A n \in LogIdx :
          log[n].op = "copy" =>
              \E m \in 1 .. (n - 1) : IsRootWrite(log[m], "404.html")
    /\ \A m, n \in LogIdx :
          (IsRootWrite(log[m], "404.html") /\ IsRootWrite(log[n], "index.html"))
              => n < m

\* A build of two posts has come as far as copying an asset.
C2_Witness ==
    /\ Len(postFiles) = 2
    /\ Did("copy")

\* C3: the index is assembled only once parseDocument has returned for every
\* discovered post file, and the collection renderIndex is given, and lists,
\* holds the Document of every discovered post.
C3_IndexAfterAllParsed ==
    \A n \in LogIdx :
        log[n].op = "renderIndex" =>
            /\ postsDirExists =>
                  { postFiles[k] : k \in Discovered }
                      = { f \in srcFiles : DirectName(f, 1) = f /\ EndsWith(f, ".md") }
            /\ \A k \in Discovered :
                  \E m \in 1 .. (n - 1) : log[m] = Ev("parse", "", postFiles[k])
            /\ \A m \in LogIdx : log[m].op = "parse" => m < n
            /\ Len(posts) = Len(postFiles)
            /\ \A k \in Discovered :
                  /\ posts[k].slug = SlugOf(postFiles[k])
                  /\ posts[k].body = BodyOf(postFiles[k])
                  /\ \E j \in 1 .. Len(sortedPosts) : sortedPosts[j] = posts[k]
            /\ Len(sortedPosts) = Len(posts)

\* The index of a build of two posts has been assembled.
C3_Witness ==
    /\ Did("renderIndex")
    /\ Len(postFiles) = 2
    /\ Len(sortedPosts) = 2

\* C4: once a call of some step has failed, nothing more is done: the throw
\* is the last thing the run did, there is only one, control has left
\* buildSite, and the run has not reached, and cannot reach, BUILD COMPLETE.
C4_FailFast ==
    failed =>
        /\ pc = "aborted"
        /\ log[Len(log)].op = "throw"
        /\ Cardinality({ n \in LogIdx : log[n].op = "throw" }) = 1
        /\ ~Did("complete")
        /\ ~ENABLED Next

\* The build failed loading a template for its second post, after the first
\* post's page was written.
C4_Witness ==
    /\ failed
    /\ log[Len(log)] = Ev("throw", "loadTemplate", "")
    /\ Cardinality({ n \in LogIdx : IsPostWrite(log[n]) }) = 1
    /\ Len(posts) = 2

\* What the run put at the path of output event e.
Written(e) ==
    CASE e.op = "copy" -> AssetBytes(SubSeq(e.path, Len("public/") + 1, Len(e.path)))
      [] e.src # "" -> PostPage(ParseDocument(e.src))
      [] e.path = "public/index.html" -> IndexPage(sortedPosts)
      [] e.path = "public/about.html" -> AboutPage
      [] OTHER -> NotFoundPage

\* Output event n is the run's last one for its path.
LastFor(n) == \A m \in LogIdx : (m > n /\ IsOutput(log[m])) => log[m].path # log[n].path

\* C5: when a build aborts, nothing is rolled back: every directory the run
\* ensured is there, and every file the run wrote or copied is in the output
\* tree with the content the run (last) wrote to it.
C5_NoRollback ==
    failed =>
        /\ \A n \in LogIdx : log[n].op = "ensureDir" => log[n].path \in pubDirs
        /\ \A n \in LogIdx :
              (IsOutput(log[n]) /\ LastFor(n)) =>
                  /\ log[n].path \in DOMAIN pubFiles
                  /\ pubFiles[log[n].path] = Written(log[n])

\* A build over a stale tree aborted after rewriting one post page: the tree
\* is partly new, partly what the earlier build left.
C5_Witness ==
    /\ failed
    /\ "a.md" \in srcFiles
    /\ "public/posts/a/index.html" \in DOMAIN pubFiles
    /\ pubFiles["public/posts/a/index.html"] = PostPage(ParseDocument("a.md"))
    /\ "public/index.html" \in DOMAIN pubFiles
    /\ pubFiles["public/index.html"] = StalePage
    /\ "public/styles.css" \notin DOMAIN pubFiles

RootFiles == {"index.html", "about.html", "404.html", "styles.css", "script.js", "favicon.svg"}

\* C6: when buildSite has run to completion, the output root holds
\* index.html, about.html, 404.html, styles.css, script.js and favicon.svg,
\* and posts/<slug>/index.html for every discovered post.
C6_CompleteOutput ==
    Completed =>
        /\ Did("complete")
        /\ \A name \in RootFiles : ("public/" \o name) \in DOMAIN pubFiles
        /\ \A k \in Discovered :
              ("public/posts/" \o SlugOf(postFiles[k]) \o "/index.html")
                  \in DOMAIN pubFiles

\* A build of two posts into an empty output tree has completed.
C6_Witness ==
    /\ Completed
    /\ Len(postFiles) = 2
    /\ "public/posts/gone/index.html" \notin DOMAIN pubFiles

\* C7: within one build no two discovered post files yield the same slug, so
\* no two posts are written to the same output path.
C7_SlugsUnique ==
    /\ \A a, b \in 1 .. Len(posts) : a # b => posts[a].slug # posts[b].slug
    /\ \A m, n \in LogIdx :
          (m # n /\ IsPostWrite(log[m]) /\ IsPostWrite(log[n]))
              => log[m].path # log[n].path

(***************************************************************************)
(* Properties of the index listing within a build (Spec).                  *)
(***************************************************************************)
\* The one-to-one assignments of the list's entries to the posts handed over.
Assignments ==
    { f \in [Entries -> 1 .. Len(posts)] :
          \A a, b \in Entries : a # b => f[a] # f[b] }

\* C11: the index lists exactly one entry per post handed to renderIndex,
\* none dropped and none duplicated, and each entry links to posts/<slug>/
\* of its post, a directory in which this build has written an index.html.
C11_ListIsInput ==
    IndexRendered =>
        /\ Len(html) - 1 = Len(posts)
        /\ \E f \in Assignments :
              \A k \in Entries :
                  html[k + 1] = "posts/" \o posts[f[k]].slug \o "/"
        /\ \A k \in Entries :
              \E n \in LogIdx :
                  /\ IsPostWrite(log[n])
                  /\ log[n].path = "public/" \o html[k + 1] \o "index.html"
                  /\ log[n].path \in DOMAIN pubFiles

\* Two posts of different slugs have been listed in the other order than
\* they were handed over.
C11_Witness ==
    /\ IndexRendered
    /\ Len(posts) = 2
    /\ posts[1].slug # posts[2].slug
    /\ html[2] = "posts/" \o posts[2].slug \o "/"
    /\ html[3] = "posts/" \o posts[1].slug \o "/"

(***************************************************************************)
(* formatPostDate(value): the date label of an index entry.                *)
(*                                                                         *)
(* A frontmatter date reaches formatPostDate as nothing (''), as a Date    *)
(* (a YAML timestamp) or as text.  Time values are in minutes since the    *)
(* epoch: formatPostDate reads nothing finer than the day.                 *)
(***************************************************************************)
MinutesPerDay == 24 * 60

IsLeapYear(y) == (y % 4 = 0) /\ ((y % 100 # 0) \/ (y % 400 = 0))

DaysInMonth(y, m) ==
    IF m = 2 THEN (IF IsLeapYear(y) THEN 29 ELSE 28)
    ELSE IF m \in {4, 6, 9, 11} THEN 30 ELSE 31

\* The day number (days since 1970-01-01) of the calendar date y-m-d, as the
\* YAML timestamp / ISO date parser computes it: the date at 00:00 UTC.
DaysFromCivil(y, m, d) ==
    LET yy  == IF m <= 2 THEN y - 1 ELSE y
        era == yy \div 400
        yoe == yy - era * 400
        mp  == IF m > 2 THEN m - 3 ELSE m + 9
        doy == (153 * mp + 2) \div 5 + d - 1
        doe == yoe * 365 + yoe \div 4 - yoe \div 100 + doy
    IN  era * 146097 + doe - 719468

\* The values data.date can hold.
NoDate == [kind |-> "absent", text |-> "", t |-> 0]
DateText(txt) == [kind |-> "text", text |-> txt, t |-> 0]
DateObject(y, m, d, minute) ==
    [kind |-> "date", text |-> "", t |-> DaysFromCivil(y, m, d) * MinutesPerDay + minute]

\* new Date(value).getTime() for a string, value.getTime() for a Date.
GetTime(value) ==
    IF value.kind = "date" THEN [nan |-> FALSE, t |-> value.t]
    ELSE [nan |-> TRUE, t |-> 0]

\* The day number read in a zone five hours behind UTC (getDay, getDate...).
LocalDay(t) == (t - 5 * 60) \div MinutesPerDay

\* Day(t) of the getUTC* accessors.
UTCDay(t) == t \div MinutesPerDay

DayFromYear(y) ==
    365 * (y - 1970) + ((y - 1969) \div 4) - ((y - 1901) \div 100) + ((y - 1601) \div 400)

YearFromDay(day) ==
    CHOOSE y \in (1969 + day \div 366) .. (1971 + day \div 365) :
        DayFromYear(y) <= day /\ day < DayFromYear(y + 1)

MonthStarts(y) ==
    LET l == IF IsLeapYear(y) THEN 1 ELSE 0
    IN  <<0, 31, 59 + l, 90 + l, 120 + l, 151 + l, 181 + l, 212 + l, 243 + l,
          273 + l, 304 + l, 334 + l>>

\* getUTCDay(), getUTCMonth(), getUTCDate(), getUTCFullYear()
GetUTCDay(t) == (UTCDay(t) + 4) % 7
GetUTCFullYear(t) == YearFromDay(UTCDay(t))
DayWithinYear(t) == UTCDay(t) - DayFromYear(GetUTCFullYear(t))
GetUTCMonth(t) ==
    LET starts == MonthStarts(GetUTCFullYear(t))
    IN  (CHOOSE m \in 1 .. 12 :
            /\ starts[m] <= DayWithinYear(t)
            /\ (m < 12 => DayWithinYear(t) < starts[m + 1])) - 1
GetUTCDate(t) ==
    DayWithinYear(t) - MonthStarts(GetUTCFullYear(t))[GetUTCMonth(t) + 1] + 1

weekdays == <<"Sun", "Mon", "Tue", "Wed", "Thu", "Fri", "Sat">>
months == <<"Jan", "Feb", "Mar", "Apr", "May", "Jun", "Jul", "Aug", "Sep", "Oct",
            "Nov", "Dec">>

\* str.slice(-2)
SliceLast2(str) == IF Len(str) <= 2 THEN str ELSE SubSeq(str, Len(str) - 1, Len(str))

\* The text returned for a value that is no date, were it formatted like one.
UnparsedLabelInvalid(value) == "NaN 'aN"

\* return String(value): the text of a value that does not parse as a date.
UnparsedLabel(value) == value.text

FormatPostDate(value) ==
    IF value.kind = "absent" THEN ""
    ELSE IF GetTime(value).nan THEN UnparsedLabel(value)
    ELSE LET t == GetTime(value).t
         IN  weekdays[GetUTCDay(t) + 1] \o " " \o months[GetUTCMonth(t) + 1] \o " "
                 \o ToString(GetUTCDate(t)) \o " '"
                 \o SliceLast2(ToString(GetUTCFullYear(t)))

\* renderIndex's dateHtml for a label.
DateHtml(formattedDate) ==
    IF formattedDate # ""
    THEN "<span class=\"post-date\">" \o formattedDate \o "</span>"
    ELSE "<span class=\"post-date\"></span>"

(***************************************************************************)
(* FormatSpec: formatPostDate applied to one frontmatter date.             *)
(***************************************************************************)
\* No build is in progress: the state outside a call under examination.
NoBuild ==
    /\ postsDirExists = TRUE
    /\ srcFiles = {}
    /\ srcDate = <<>>
    /\ pubDirs = {}
    /\ pubFiles = <<>>
    /\ pc = "idle"
    /\ phase = "render"
    /\ i = 1
    /\ postFiles = <<>>
    /\ posts = <<>>
    /\ html = <<>>
    /\ sortedPosts = <<>>
    /\ log = <<>>
    /\ failed = FALSE

buildVars == <<postsDirExists, srcFiles, srcDate, pubDirs, pubFiles, pc, phase, i,
               postFiles, posts, html, sortedPosts, log, failed>>

\* Years around the epoch, a century year that is leap and one that is not,
\* a leap year and the year of the documented example.
FormatYears == {1969, 1970, 2000, 2024, 2025, 2100}

CivilDates ==
    { c \in FormatYears \X (1 .. 12) \X (1 .. 31) : c[3] <= DaysInMonth(c[1], c[2]) }

\* Texts that do not parse as a date.
DateTexts == {"soon", "TBD", " "}

\* The first and the last minute of a day.
Minutes == {0, MinutesPerDay - 1}

NoCivil == <<0, 0, 0>>

FormatInputs ==
    {[value |-> NoDate, civil |-> NoCivil]}
        \cup { [value |-> DateText(txt), civil |-> NoCivil] : txt \in DateTexts }
        \cup { [value |-> DateObject(c[1], c[2], c[3], mn), civil |-> c] :
                   c \in CivilDates, mn \in Minutes }

FormatInit ==
    /\ NoBuild
    /\ \E in \in FormatInputs :
          call = [fn |-> "formatPostDate", value |-> in.value, civil |-> in.civil,
                  out |-> "", html |-> "", done |-> FALSE]

\* formatPostDate(post.date) and the dateHtml renderIndex makes of it.
CallFormatPostDate ==
    /\ call.fn = "formatPostDate"
    /\ ~call.done
    /\ call' = [call EXCEPT !.out = FormatPostDate(call.value),
                            !.html = DateHtml(FormatPostDate(call.value)),
                            !.done = TRUE]
    /\ UNCHANGED buildVars

FormatNext == CallFormatPostDate

FormatSpec == FormatInit /\ [][FormatNext]_vars

(***************************************************************************)
(* Properties of the date label (FormatSpec).                              *)
(***************************************************************************)
Formatted == call.fn = "formatPostDate" /\ call.done

\* The day of the week of a calendar date, 0 for Sunday, by the congruence
\* on year, month and day.
CivilWeekday(c) ==
    LET shift == <<0, 3, 2, 5, 0, 3, 5, 1, 4, 6, 2, 4>>
        y == IF c[2] < 3 THEN c[1] - 1 ELSE c[1]
    IN  (y + y \div 4 - y \div 100 + y \div 400 + shift[c[2]] + c[3]) % 7

TwoDigits(n) == IF n < 10 THEN "0" \o ToString(n) ELSE ToString(n)

\* C12: for a value that is a calendar date (at any time of the day, UTC),
\* formatPostDate returns "<Weekday> <Month> <Day> '<YY>" with the weekday,
\* the month, the unpadded day of the month and the last two digits of the
\* year of that date; 2025-12-28 gives "Sun Dec 28 '25".
C12_UtcLabel ==
    (Formatted /\ call.value.kind = "date") =>
        /\ call.out = weekdays[CivilWeekday(call.civil) + 1] \o " "
                          \o months[call.civil[2]] \o " "
                          \o ToString(call.civil[3]) \o " '"
                          \o TwoDigits(call.civil[1] % 100)
        /\ call.civil = <<2025, 12, 28>> => call.out = "Sun Dec 28 '25"

\* The last minute (UTC) of 2025-12-28 has been formatted.
C12_Witness ==
    /\ Formatted
    /\ call.civil = <<2025, 12, 28>>
    /\ call.value.t % MinutesPerDay = MinutesPerDay - 1
    /\ call.out = "Sun Dec 28 '25"

\* C13: formatPostDate never fails: the call returns for a value that is
\* no date as it does for a date; an absent date gives the empty label, which renderIndex puts in an empty
\* date span, and a text that does not parse as a date is returned as it is.
C13_AbsentAndUnparsed ==
    /\ (call.fn = "formatPostDate" /\ ~call.done /\ call.value.kind # "date")
           => ENABLED CallFormatPostDate
    /\ (Formatted /\ call.value.kind = "absent") =>
           call.out = "" /\ call.html = "<span class=\"post-date\"></span>"
    /\ (Formatted /\ call.value.kind = "text") => call.out = call.value.text

\* The text "soon" has been formatted.
C13_Witness ==
    /\ Formatted
    /\ call.value = DateText("soon")
    /\ call.html = "<span class=\"post-date\">soon</span>"

(***************************************************************************)
(* renderTemplate(template, values): placeholder substitution.             *)
(*                                                                         *)
(* Templates and values are strings; values is the list of the map's       *)
(* entries <<key, value>> in the order Object.entries yields them.         *)
(***************************************************************************)
\* What \s matches, as far as templates of the model hold it.
Whitespace == {" "}

\* s holds w at position p.
StartsAt(s, p, w) ==
    /\ p + Len(w) - 1 <= Len(s)
    /\ SubSeq(s, p, p + Len(w) - 1) = w

\* The first position from p on that holds no whitespace: \s* is greedy, and
\* neither a key nor a brace starts with whitespace, so nothing is given back.
RECURSIVE SkipWhitespace(_, _)
SkipWhitespace(s, p) ==
    IF p <= Len(s) /\ SubSeq(s, p, p) \in Whitespace
    THEN SkipWhitespace(s, p + 1)
    ELSE p

\* The name inside the braces being any name at all.
AnyNameAt(s, q, key) == \E name \in {"a", "b"} : StartsAt(s, q, name)

\* The key, interpolated into the pattern, matches at q.
NameAt(s, q, key) == StartsAt(s, q, key)

\* The pattern without its closing braces, /\{\{\s*key/.
MatchLenUnclosed(s, p, key) ==
    IF ~StartsAt(s, p, "{{") THEN 0
    ELSE LET q1 == SkipWhitespace(s, p + 2)
         IN  IF NameAt(s, q1, key) THEN q1 + Len(key) - p ELSE 0

\* The length of the match of /\{\{\s*key\s*\}\}/ that starts at p, 0 if the
\* pattern does not match there.
MatchLen(s, p, key) ==
    IF ~StartsAt(s, p, "{{") THEN 0
    ELSE LET q1 == SkipWhitespace(s, p + 2)
         IN  IF ~NameAt(s, q1, key) THEN 0
             ELSE LET q2 == SkipWhitespace(s, q1 + Len(key))
                  IN  IF StartsAt(s, q2, "}}") THEN q2 + 2 - p ELSE 0

\* The replacer () => value: the value itself, whatever it holds.
Replacement(value, matched) == value

\* The scan of result.replace(placeholder, replacer) from position p on,
\* going on after each match (flag g) in the text being scanned, never in the
\* text put in.
RECURSIVE ReplaceFrom(_, _, _, _)
ReplaceFrom(s, p, key, value) ==
    IF p > Len(s) THEN ""
    ELSE LET n == MatchLen(s, p, key)
         IN  IF n > 0
             THEN Replacement(value, SubSeq(s, p, p + n - 1))
                      \o ReplaceFrom(s, p + n, key, value)
             ELSE SubSeq(s, p, p) \o ReplaceFrom(s, p + 1, key, value)

\* replace without the g flag: the first match only.
RECURSIVE ReplaceFirstFrom(_, _, _, _)
ReplaceFirstFrom(s, p, key, value) ==
    IF p > Len(s) THEN ""
    ELSE LET n == MatchLen(s, p, key)
         IN  IF n > 0
             THEN Replacement(value, SubSeq(s, p, p + n - 1))
                      \o SubSeq(s, p + n, Len(s))
             ELSE SubSeq(s, p, p) \o ReplaceFirstFrom(s, p + 1, key, value)

ReplaceFirst(s, key, value) == ReplaceFirstFrom(s, 1, key, value)

\* result.replace(placeholder, () => value)
ReplaceAll(s, key, value) == ReplaceFrom(s, 1, key, value)

\* The loop over Object.entries(values) from entry k on.
RECURSIVE RenderFrom(_, _, _)
RenderFrom(result, values, k) ==
    IF k > Len(values) THEN result
    ELSE RenderFrom(ReplaceAll(result, values[k][1], values[k][2]), values, k + 1)

RenderTemplate(template, values) == RenderFrom(template, values, 1)

(***************************************************************************)
(* RenderSpec: renderTemplate applied to one template and one values map,  *)
(* and once more to its own output.                                        *)
(***************************************************************************)
MaxPieces == 3

\* The names of the model's placeholders and keys.
KeyNames == {"a", "b"}

\* What templates are pieced together from: placeholders with and without
\* whitespace, braces on their own and a text that is also a key's name.
Pieces == {"{{a}}", "{{ a }}", "{{b}}", "{{", "}}", "a"}

\* Values: plain text, a placeholder, a replacement pattern, and both.
Values == {"a", "{{b}}", "$&", "$&{{b}}"}

RECURSIVE Concat(_)
Concat(ps) == IF ps = <<>> THEN "" ELSE Head(ps) \o Concat(Tail(ps))

PieceLists == UNION { [1 .. n -> Pieces] : n \in 0 .. MaxPieces }

\* The maps over some of the names, in either order of their keys.
ValueMaps ==
    {<<>>}
        \cup { <<<<k, v>>>> : k \in KeyNames, v \in Values }
        \cup { vm \in { <<<<k1, v1>>, <<k2, v2>>>> :
                            k1 \in KeyNames, k2 \in KeyNames,
                            v1 \in Values, v2 \in Values } :
                   vm[1][1] # vm[2][1] }

RenderInit ==
    /\ NoBuild
    /\ \E ps \in PieceLists, vm \in ValueMaps :
          call = [fn |-> "renderTemplate", pieces |-> ps, template |-> Concat(ps),
                  values |-> vm, out |-> "", again |-> "", done |-> 0]

\* renderTemplate(template, values)
CallRenderTemplate ==
    /\ call.fn = "renderTemplate"
    /\ call.done = 0
    /\ call' = [call EXCEPT !.out = RenderTemplate(call.template, call.values),
                            !.done = 1]
    /\ UNCHANGED buildVars

\* renderTemplate(output, values): the same values applied to the output.
CallRenderTemplateAgain ==
    /\ call.fn = "renderTemplate"
    /\ call.done = 1
    /\ call' = [call EXCEPT !.again = RenderTemplate(call.out, call.values),
                            !.done = 2]
    /\ UNCHANGED buildVars

RenderNext == CallRenderTemplate \/ CallRenderTemplateAgain

RenderSpec == RenderInit /\ [][RenderNext]_vars

(***************************************************************************)
(* Properties of renderTemplate (RenderSpec).                              *)
(***************************************************************************)
Rendered == call.fn = "renderTemplate" /\ call.done >= 1
RenderedTwice == call.fn = "renderTemplate" /\ call.done = 2

KeysOf(vm) == { vm[k][1] : k \in 1 .. Len(vm) }
ValueOf(vm, key) == vm[CHOOSE k \in 1 .. Len(vm) : vm[k][1] = key][2]

\* The pieces that are placeholders, and the name each one holds.
IsPlaceholder(piece) == piece \in {"{{a}}", "{{ a }}", "{{b}}"}
NameOf(piece) == IF piece = "{{b}}" THEN "b" ELSE "a"

\* Every brace of the template belongs to a placeholder.
Plain(ps) == \A k \in 1 .. Len(ps) : ps[k] \notin {"{{", "}}"}

\* The template with each placeholder of a key exchanged for the key's
\* value, and everything else as it stands.
Substituted(ps, vm) ==
    Concat([ k \in 1 .. Len(ps) |->
                IF IsPlaceholder(ps[k]) /\ NameOf(ps[k]) \in KeysOf(vm)
                THEN ValueOf(vm, NameOf(ps[k]))
                ELSE ps[k] ])

Contains(s, w) == \E p \in 1 .. Len(s) : StartsAt(s, p, w)
Count(s, w) == Cardinality({ p \in 1 .. Len(s) : StartsAt(s, p, w) })

\* The template holds a placeholder of the key.
Uses(template, key) == \E p \in 1 .. Len(template) : MatchLen(template, p, key) > 0

\* C14: every occurrence of {{key}} in the template, with or without
\* whitespace around the name, is replaced by the value of key, for each key
\* of the map; all occurrences of a name receive the same value.
C14_EveryOccurrenceReplaced ==
    (Rendered /\ Plain(call.pieces)) =>
        call.out = Substituted(call.pieces, call.values)

\* The entry's value holds a placeholder of another key of the map.
HoldsOtherKey(vm, k) ==
    \E n \in 1 .. Len(vm) :
        n # k /\ Contains(vm[k][2], "{{" \o vm[n][1] \o "}}")

\* The template holds a placeholder piece of the entry's key.
Placed(ps, vm, k) ==
    \E n \in 1 .. Len(ps) : IsPlaceholder(ps[n]) /\ NameOf(ps[n]) = vm[k][1]

\* C15: the text put in for one key is never itself scanned for
\* placeholders: a value holding {{k}} for another key k of the map appears
\* in the output as it is, whatever the order of the keys.
C15_InsertedTextNotScanned ==
    (Rendered /\ Plain(call.pieces)) =>
        \A k \in 1 .. Len(call.values) :
            (HoldsOtherKey(call.values, k) /\ Placed(call.pieces, call.values, k))
                => Contains(call.out, call.values[k][2])

\* The text holds {{...}}: an opening pair of braces and, after it, a
\* closing pair.
HasPlaceholderSyntax(s) ==
    \E p, q \in 1 .. Len(s) :
        StartsAt(s, p, "{{") /\ StartsAt(s, q, "}}") /\ q >= p + 2

\* C16 as claimed: rendering the output again with the same values changes
\* nothing, provided no placeholder of the template has a value that holds
\* {{...}}.
C16_Idempotent ==
    (/\ RenderedTwice
     /\ \A k \in 1 .. Len(call.values) :
            Uses(call.template, call.values[k][1])
                => ~HasPlaceholderSyntax(call.values[k][2]))
        => call.again = call.out

\* C16, amended: rendering the output again with the same values changes
\* nothing, provided every brace of the template belongs to a placeholder
\* and no placeholder of the template has a value that holds a brace.
C16_IdempotentPlain ==
    (/\ RenderedTwice
     /\ Plain(call.pieces)
     /\ \A k \in 1 .. Len(call.values) :
            Uses(call.template, call.values[k][1])
                => (~Contains(call.values[k][2], "{") /\ ~Contains(call.values[k][2], "}")))
        => call.again = call.out

\* A template with two placeholders of a, one with whitespace, has been
\* rendered twice with a value for a and a value, never used, for b.
C16_Witness ==
    /\ RenderedTwice
    /\ call.pieces = <<"{{a}}", "a", "{{ a }}">>
    /\ call.values = <<<<"b", "{{b}}">>, <<"a", "$&">>>>
    /\ call.out = "$&a$&"
    /\ call.again = call.out

\* C17: a template that holds no {{...}} sequence is returned unchanged,
\* whatever the values map.
C17_NoPlaceholderUnchanged ==
    (Rendered /\ ~HasPlaceholderSyntax(call.template)) =>
        call.out = call.template

\* A template of braces that never close around the name it holds has been
\* rendered with a values map that has a value for that name.
C17_Witness ==
    /\ Rendered
    /\ call.template = "}}{{a"
    /\ call.values = <<<<"a", "$&">>, <<"b", "a">>>>
    /\ call.out = "}}{{a"

\* C18: a placeholder whose name is no key of the values map is left in the
\* output as it stands: none of its occurrences goes away, and a template
\* whose braces all belong to placeholders comes out with the placeholders
\* of that name in place.
C18_UnmatchedStays ==
    \A name \in KeyNames :
        (Rendered /\ name \notin KeysOf(call.values)) =>
            /\ Count(call.out, "{{" \o name \o "}}")
                   >= Count(call.template, "{{" \o name \o "}}")
            /\ (/\ Plain(call.pieces)
                /\ \A k \in 1 .. Len(call.values) : ~Contains(call.values[k][2], "{{"))
                   => call.out = Substituted(call.pieces, call.values)

\* A template holding placeholders of a and of b has been rendered with a
\* value for a only.
C18_Witness ==
    /\ Rendered
    /\ call.pieces = <<"{{b}}", "{{ a }}", "{{b}}">>
    /\ call.values = <<<<"a", "$&">>>>
    /\ call.out = "{{b}}$&{{b}}"

\* C19: a value holding $ (as in $&, $1, $$) or \ appears character for
\* character in the output wherever its placeholder stood; it is never read
\* as a replacement pattern.
C19_DollarVerbatim ==
    (Rendered /\ Plain(call.pieces)) =>
        \A k \in 1 .. Len(call.values) :
            (Contains(call.values[k][2], "$") /\ Placed(call.pieces, call.values, k))
                => Contains(call.out, call.values[k][2])

(***************************************************************************)
(* parseDocument(filePath): frontmatter and its defaults.                  *)
(*                                                                         *)
(* A source file is its frontmatter: none (no --- markers), a mapping, a   *)
(* scalar (YAML that is no mapping) or malformed (no YAML at all).         *)
(* A YAML value is <<"undefined">> for a key the mapping lacks,            *)
(* <<"str", text>>, <<"bool", "true" or "false">> or <<"date", text>>.     *)
(***************************************************************************)
FrontKeys == {"title", "subtitle", "description", "date", "template",
              "uses_math", "uses_code"}

Undefined == <<"undefined">>
Str(text) == <<"str", text>>
Bool(text) == <<"bool", text>>

\* matter(content) throws what the YAML parser throws: nothing in
\* gray-matter or in parseDocument catches it.
MatterThrows(src) == src.front = "malformed"

\* matter(content).data: the empty object when the file has no frontmatter,
\* a string, none of whose properties is a frontmatter key, for a scalar.
Matter(src) ==
    IF src.front = "mapping" THEN src.data ELSE [k \in FrontKeys |-> Undefined]

\* What JavaScript takes for true in a || b.
Truthy(v) ==
    \/ v[1] = "str" /\ v[2] # ""
    \/ v = Bool("true")
    \/ v[1] = "date"

\* v || default
OrDefault(v, default) == IF Truthy(v) THEN v ELSE default

\* A flag spelt in any way JavaScript takes for true.
IsTruthy(v) == Truthy(v)

\* v === true
IsTrue(v) == v = Bool("true")

\* The Document parseDocument returns for a file and what it holds.
ParseDocumentFrom(filePath, src) ==
    LET data == Matter(src)
    IN  [title       |-> OrDefault(data["title"], Str("Untitled")),
         subtitle    |-> OrDefault(data["subtitle"], Str("")),
         description |-> OrDefault(data["description"], Str("")),
         date        |-> OrDefault(data["date"], Str("")),
         template    |-> OrDefault(data["template"], Str("post")),
         usesMath    |-> IsTrue(data["uses_math"]),
         usesCode    |-> IsTrue(data["uses_code"]),
         body        |-> BodyOf(filePath),
         slug        |-> Basename(filePath, ".md")]

(***************************************************************************)
(* ParseSpec: parseDocument applied to one discovered file.                *)
(***************************************************************************)
\* The entries discovery hands to parseDocument.
PostNames == { name \in ReadDir(EntryNames) : HasExtension(name, ".md") }

\* The values each key takes in the frontmatter mappings of the model.
KeyValues ==
    [title       |-> {Undefined, Str(""), Str("T")},
     subtitle    |-> {Undefined, Str("S")},
     description |-> {Undefined, Str("D")},
     date        |-> {Undefined, <<"date", "2025-12-28">>},
     template    |-> {Undefined, Str("about")},
     uses_math   |-> {Undefined, Bool("true"), Str("true")},
     uses_code   |-> {Undefined, Bool("true")}]

Mappings == { d \in [FrontKeys -> UNION { KeyValues[k] : k \in FrontKeys }] :
                 \A k \in FrontKeys : d[k] \in KeyValues[k] }

Sources ==
    { [front |-> f, data |-> [k \in FrontKeys |-> Undefined]] :
          f \in {"none", "scalar", "malformed"} }
        \cup { [front |-> "mapping", data |-> d] : d \in Mappings }

ParseInit ==
    /\ NoBuild
    /\ \E name \in PostNames, src \in Sources :
          call = [fn |-> "parseDocument", file |-> name, src |-> src,
                  doc |-> <<>>, threw |-> FALSE, done |-> FALSE]

\* parseDocument(filePath): returns a Document, or throws out of matter().
CallParseDocument ==
    /\ call.fn = "parseDocument"
    /\ ~call.done
    /\ call' = IF MatterThrows(call.src)
               THEN [call EXCEPT !.threw = TRUE, !.done = TRUE]
               ELSE [call EXCEPT !.doc = ParseDocumentFrom(call.file, call.src),
                                 !.done = TRUE]
    /\ UNCHANGED buildVars

ParseNext == CallParseDocument

ParseSpec == ParseInit /\ [][ParseNext]_vars

(***************************************************************************)
(* Properties of parseDocument (ParseSpec).                                *)
(***************************************************************************)
Parsed == call.fn = "parseDocument" /\ call.done

\* The file name with its last three characters, the extension, cut off.
WithoutMd(name) == SubSeq(name, 1, Len(name) - 3)

\* C20: for a file without frontmatter markers the Document has the default
\* of every metadata field (title "Untitled", subtitle, description and date
\* empty, template "post", usesMath and usesCode false), and its slug is
\* still the file name without .md.
C20_DefaultsWithoutFrontmatter ==
    (Parsed /\ call.src.front = "none") =>
        /\ call.doc.title = Str("Untitled")
        /\ call.doc.subtitle = Str("")
        /\ call.doc.description = Str("")
        /\ call.doc.date = Str("")
        /\ call.doc.template = Str("post")
        /\ call.doc.usesMath = FALSE
        /\ call.doc.usesCode = FALSE
        /\ call.doc.slug = WithoutMd(call.file)

\* The Document holds the default of every metadata field.
HasDefaults(doc) ==
    /\ doc.title = Str("Untitled")
    /\ doc.subtitle = Str("")
    /\ doc.description = Str("")
    /\ doc.date = Str("")
    /\ doc.template = Str("post")
    /\ doc.usesMath = FALSE
    /\ doc.usesCode = FALSE

\* C21: malformed frontmatter is never fatal: for a file whose header cannot
\* be parsed as a key-value mapping, parseDocument still returns a Document,
\* with the default of every field, and the build goes on.
C21_MalformedTolerated ==
    (Parsed /\ call.src.front \in {"scalar", "malformed"}) =>
        /\ ~call.threw
        /\ HasDefaults(call.doc)

(***************************************************************************)
(* The values each page's base template is filled with: renderPost,        *)
(* renderIndex, renderAbout and render404.                                 *)
(***************************************************************************)
\* The two snippets, as far as the model reads them: which one it is.
MATHJAX_SCRIPTS == "<script id=\"MathJax-script\">"
PRISMJS_SCRIPTS == "<script src=\"prism.min.js\">"

\* generateHeadExtras(doc)
GenerateHeadExtras(doc) ==
    (IF doc.usesMath THEN MATHJAX_SCRIPTS ELSE "")
        \o (IF doc.usesCode THEN PRISMJS_SCRIPTS ELSE "")

PageKinds == {"post", "index", "about", "notfound"}

\* The source document of a page, if it has one.
SourceName(kind) ==
    CASE kind = "post"  -> "a.md"
      [] kind = "index" -> "index.md"
      [] kind = "about" -> "about.md"
      [] OTHER          -> ""

\* The stand-ins for writing/index.md and writing/about.md.
FallbackIndexDoc ==
    [title       |-> Str("Ink Dreams - Notes"),
     description |-> Str("Notes and essays in a hand-drawn aesthetic.")]
FallbackAboutDoc ==
    [title       |-> Str("About"),
     description |-> Str("About this site"),
     body        |-> "<p>About page content.</p>"]

\* parseDocument called whether or not the file is there.
ReadsSourceAlways(kind, exists) == kind # "notfound"

\* The page's source is read: a post always, index.md and about.md under
\* fs.existsSync, and the 404 page has none.
ReadsSource(kind, exists) == kind = "post" \/ (kind \in {"index", "about"} /\ exists)

\* Rendering the page throws: out of readFileSync for a file that is not
\* there, out of matter() for one that is malformed.
RenderThrows(kind, exists, src) ==
    ReadsSource(kind, exists) /\ (~exists \/ MatterThrows(src))

\* The Document the page is made of.
PageDoc(kind, exists, src) ==
    IF ReadsSource(kind, exists) THEN ParseDocumentFrom(SourceName(kind), src)
    ELSE IF kind = "index" THEN FallbackIndexDoc
    ELSE IF kind = "about" THEN FallbackAboutDoc
    ELSE [title |-> Str("404 Not Found"), description |-> Str("Page not found")]

\* The entries of the values map handed to renderTemplate with the base
\* template, in the order they are written.
PageValues(kind, doc) ==
    << <<"title", doc.title>>,
       <<"description", doc.description>>,
       <<"head_extra", IF kind = "post" THEN GenerateHeadExtras(doc) ELSE "">>,
       <<"body_class", CASE kind = "post"  -> "post-page"
                         [] kind = "index" -> "centered-list"
                         [] kind = "about" -> "hero"
                         [] OTHER          -> "error-page">>,
       <<"content", CASE kind = "notfound" -> "<404.html>"
                      [] kind = "index"    -> "<post list>"
                      [] OTHER             -> doc.body>> >>

(***************************************************************************)
(* PageSpec: one page rendered from its source document, if it has one.    *)
(***************************************************************************)
PageInputs ==
    { in \in [kind : PageKinds, exists : BOOLEAN, src : Sources] :
        /\ in.kind = "post" => in.exists
        /\ in.kind = "notfound" => (~in.exists /\ in.src.front = "none")
        /\ ~in.exists => in.src.front = "none" }

PageInit ==
    /\ NoBuild
    /\ \E in \in PageInputs :
          call = [fn |-> "render", kind |-> in.kind, exists |-> in.exists,
                  src |-> in.src, values |-> <<>>, threw |-> FALSE, done |-> FALSE]

\* renderPost(doc) after parseDocument, renderIndex(), renderAbout(),
\* render404(): up to the values of the base template.
CallRender ==
    /\ call.fn = "render"
    /\ ~call.done
    /\ call' = IF RenderThrows(call.kind, call.exists, call.src)
               THEN [call EXCEPT !.threw = TRUE, !.done = TRUE]
               ELSE [call EXCEPT
                        !.values = PageValues(call.kind,
                                       PageDoc(call.kind, call.exists, call.src)),
                        !.done = TRUE]
    /\ UNCHANGED buildVars

PageNext == CallRender

PageSpec == PageInit /\ [][PageNext]_vars

(***************************************************************************)
(* Properties of the pages' values (PageSpec).                             *)
(***************************************************************************)
PageRendered == call.fn = "render" /\ call.done /\ ~call.threw

\* The frontmatter of the page's source holds the boolean true under key.
FlagIsTrue(key) ==
    call.src.front = "mapping" /\ call.src.data[key] = <<"bool", "true">>

\* C25: a post page's head_extra holds the math snippet exactly if uses_math
\* is the boolean true in the frontmatter and the highlighting snippet
\* exactly if uses_code is, the math snippet first when both; the index,
\* about and 404 pages get an empty head_extra.
C25_HeadExtra ==
    PageRendered =>
        LET head == ValueOf(call.values, "head_extra")
        IN  IF call.kind = "post"
            THEN /\ Contains(head, MATHJAX_SCRIPTS) <=> FlagIsTrue("uses_math")
                 /\ Contains(head, PRISMJS_SCRIPTS) <=> FlagIsTrue("uses_code")
                 /\ (FlagIsTrue("uses_math") /\ FlagIsTrue("uses_code"))
                        => head = MATHJAX_SCRIPTS \o PRISMJS_SCRIPTS
            ELSE head = ""

\* A post whose frontmatter sets both flags to true has been rendered.
C25_Witness ==
    /\ PageRendered
    /\ call.kind = "post"
    /\ FlagIsTrue("uses_math")
    /\ FlagIsTrue("uses_code")
    /\ ValueOf(call.values, "head_extra") = MATHJAX_SCRIPTS \o PRISMJS_SCRIPTS

\* C26: index.md and about.md are optional.  Without the file the page is
\* rendered, nothing thrown, with the fixed title and description (and body,
\* for about); with the file, title and description are the Document's.
C26_OptionalSiteDocs ==
    (call.fn = "render" /\ call.done /\ call.kind \in {"index", "about"}) =>
        IF ~call.exists
        THEN /\ ~call.threw
             /\ call.kind = "index" =>
                   /\ ValueOf(call.values, "title") = <<"str", "Ink Dreams - Notes">>
                   /\ ValueOf(call.values, "description")
                          = <<"str", "Notes and essays in a hand-drawn aesthetic.">>
             /\ call.kind = "about" =>
                   /\ ValueOf(call.values, "title") = <<"str", "About">>
                   /\ ValueOf(call.values, "description") = <<"str", "About this site">>
                   /\ ValueOf(call.values, "content") = "<p>About page content.</p>"
        ELSE ~call.threw =>
                LET doc == ParseDocumentFrom(SourceName(call.kind), call.src)
                IN  /\ ValueOf(call.values, "title") = doc.title
                    /\ ValueOf(call.values, "description") = doc.description
                    /\ (call.src.front = "mapping" /\ Truthy(call.src.data["title"]))
                           => ValueOf(call.values, "title") = call.src.data["title"]

\* The about page has been rendered without writing/about.md.
C26_Witness ==
    /\ call.fn = "render"
    /\ call.done
    /\ call.kind = "about"
    /\ ~call.exists
    /\ ValueOf(call.values, "title") = <<"str", "About">>

(***************************************************************************)
(* Discovery of the post sources.                                          *)
(***************************************************************************)
\* The source files that lie directly inside the posts directory and end in
\* ".md".
DirectMarkdown ==
    IF postsDirExists
    THEN { f \in srcFiles : ~Contains(f, "/") /\ EndsWith(f, ".md") }
    ELSE {}

ParsedFiles == { log[n].src : n \in { m \in LogIdx : log[m].op = "parse" } }

\* C27: discovery is non-recursive and filtered by extension: the files handed
\* to parseDocument are entries directly inside the posts source directory
\* whose names end in ".md", a finished build has parsed exactly those, each
\* once, and a missing posts directory yields zero posts without an abort at
\* discovery.
C27_DirectMarkdownOnly ==
    /\ Did("found") =>
          /\ { postFiles[n] : n \in Discovered } = DirectMarkdown
          /\ Len(postFiles) = Cardinality(DirectMarkdown)
    /\ ParsedFiles \subseteq DirectMarkdown
    /\ Completed =>
          /\ ParsedFiles = DirectMarkdown
          /\ Len(posts) = Cardinality(DirectMarkdown)
    /\ ~postsDirExists =>
          /\ \A n \in LogIdx : ~(log[n].op = "throw" /\ log[n].path = "readdir")
          /\ pc = "parse" => postFiles = <<>> /\ ~failed

\* A finished build over a post and a post-like file in a subdirectory.
C27_Witness ==
    /\ Completed
    /\ \E f \in srcFiles : Contains(f, "/") /\ EndsWith(f, ".md")
    /\ ParsedFiles # {}

\* A finished build without a posts source directory.
C27_WitnessNoDir == Completed /\ ~postsDirExists /\ posts = <<>>

(***************************************************************************)
(* What a build leaves of an earlier build's output.                       *)
(***************************************************************************)
\* The output pages of posts that have no source any more.
Orphans(files) ==
    { q \in DOMAIN files :
        /\ \E slug \in {"a", "b", "gone", ".md"} : q = PathJoin(PostOutput(slug))
        /\ \A f \in DirectMarkdown : q # PathJoin(PostOutput(SlugOf(f))) }

\* The pages the index in the output tree links to.
IndexTargets(files) ==
    LET page == files[PathJoin(RootOutput("index.html"))]
    IN  { PUBLIC_DIR \o "/" \o page[k] \o "index.html" : k \in 2 .. Len(page) }

IndexWritten ==
    \E n \in LogIdx : IsRootWrite(log[n], "index.html")

\* C30: no step of a build removes a directory or a file of the output tree
\* or leaves a file empty; the page of a post whose source is gone stays as
\* it was, and the index this build writes does not link to it.
C30_OutputOnlyGrows ==
    [][ /\ pubDirs \subseteq pubDirs'
        /\ DOMAIN pubFiles \subseteq DOMAIN pubFiles'
        /\ \A q \in DOMAIN pubFiles' : pubFiles'[q] # <<>>
        /\ \A q \in Orphans(pubFiles) : pubFiles'[q] = pubFiles[q]
        /\ IndexWritten' => IndexTargets(pubFiles') \cap Orphans(pubFiles') = {} ]_vars

\* A finished build over the output of an earlier one, one of whose posts
\* has no source any more, with a post of its own.
C30_Witness ==
    /\ Completed
    /\ PathJoin(PostOutput("gone")) \in Orphans(pubFiles)
    /\ pubFiles[PathJoin(PostOutput("gone"))] = StalePage
    /\ IndexTargets(pubFiles) # {}

(***************************************************************************)
(* The preview server (scripts/serve.js): paths and the file system.       *)
(***************************************************************************)
\* The longest request path, in segments.
MaxSegs == 3

\* The directory the project is checked out in.
ProjectRoot == <<"weblog">>

\* serve.js's PUBLIC_DIR: path.resolve(__dirname, '..', 'public')
ServePublicDir == ProjectRoot \o <<PUBLIC_DIR>>

\* An absolute path: its segments, and whether it ends in a slash.
Path(segs, trail) == [segs |-> segs, trail |-> trail]

PathStr(p) ==
    IF p.segs = <<>> THEN "/"
    ELSE "/" \o JoinSegs(p.segs) \o (IF p.trail THEN "/" ELSE "")

\* Resolution of ".." in an absolute path: the root is its own parent.
RECURSIVE NormAbs(_, _)
NormAbs(segs, acc) ==
    IF segs = <<>> THEN acc
    ELSE IF Head(segs) = ".."
         THEN NormAbs(Tail(segs), SubSeq(acc, 1, Len(acc) - 1))
         ELSE NormAbs(Tail(segs), Append(acc, Head(segs)))

\* path.normalize(p) of an absolute path; a trailing slash is kept.
Normalize(p) == Path(NormAbs(p.segs, <<>>), p.trail)

\* path.join(dir, p): the two joined by "/" and normalized.
Join(dir, p) == Normalize(Path(dir.segs \o p.segs, p.trail))

\* path.extname(p) is not empty: the last segment has a dot after its first
\* character.
HasExtName(p) ==
    /\ p.segs # <<>>
    /\ LET base == p.segs[Len(p.segs)]
       IN  base # ".." /\ \E k \in 2 .. Len(base) : SubSeq(base, k, k) = "."

\* The file the operating system reaches by a path.
Resolve(p) == NormAbs(p.segs, <<>>)

\* The path leads through a regular file, or names one with a trailing slash.
UnderFile(tree, p) ==
    LET q == Resolve(p)
    IN  \/ \E n \in 1 .. (Len(q) - 1) : SubSeq(q, 1, n) \in tree.files
        \/ q \in tree.files /\ p.trail

\* What fs.stat(p) can report. For a path through a regular file the error
\* is ENOTDIR on POSIX systems and ENOENT elsewhere.
StatResults(tree, p) ==
    IF Resolve(p) \in tree.dirs THEN {"dir"}
    ELSE IF UnderFile(tree, p) THEN {"ENOTDIR", "ENOENT"}
    ELSE IF Resolve(p) \in tree.files THEN {"file"}
    ELSE {"ENOENT"}

\* What fs.readFile(p) can end with; a file of a flaky disk may fail to read.
ReadResults(tree, p) ==
    IF Resolve(p) \in tree.dirs THEN {"EISDIR"}
    ELSE IF UnderFile(tree, p) THEN {"ENOTDIR", "ENOENT"}
    ELSE IF Resolve(p) \in tree.files
         THEN {"data"} \cup (IF tree.flaky THEN {"EIO"} ELSE {})
    ELSE {"ENOENT"}

\* fs.existsSync(p)
ExistsSync(tree, p) == StatResults(tree, p) \cap {"dir", "file"} # {}

\* The bytes of the file a path reaches.
Content(p) == "data:" \o PathStr(Path(Resolve(p), FALSE))

\* All leading parts of a path.
Prefixes(segs) == { SubSeq(segs, 1, n) : n \in 0 .. (Len(segs) - 1) }

\* The files outside the output tree: one next to it.
OutsideFiles == { ProjectRoot \o <<"secret.txt">> }

\* The disk before a build has written a page: startServer requires the
\* output directory to exist, and it is empty.
Unbuilt(flaky) ==
    [ dirs |-> {<<>>, ProjectRoot, ServePublicDir}, files |-> OutsideFiles,
      flaky |-> flaky ]

\* The disk after a successful build of the given post sources: the pages
\* buildSite writes, at the places it writes them.
Built(sources, flaky) ==
    LET out == { ProjectRoot \o PostOutput(SlugOf(f)) : f \in sources }
                   \cup { ProjectRoot \o RootOutput(n) : n \in {"index.html", "404.html"} }
    IN  [ dirs |-> {<<>>, ProjectRoot, ServePublicDir, ServePublicDir \o <<POSTS_SUBDIR>>}
                       \cup UNION { Prefixes(q) : q \in out },
          files |-> out \cup OutsideFiles,
          flaky |-> flaky ]

(***************************************************************************)
(* handleRequest(req, res)                                                 *)
(***************************************************************************)
\* req.url: an origin-form target, or an absolute-form target made of a
\* scheme and a host only ("x://h").
OriginForm(segs, trail) == [abs |-> FALSE, segs |-> segs, trail |-> trail]
AbsoluteForm == [abs |-> TRUE, segs |-> <<>>, trail |-> FALSE]

\* url.parse(req.url).pathname is null: the target holds no path and its
\* scheme is not one url.parse gives "/" to. path.normalize(null) throws.
PathnameIsNull(u) == u.abs

\* pathname, with "/" replaced by "/index.html". url.parse decodes nothing.
Pathname(u) ==
    IF u.segs = <<>> THEN Path(<<"index.html">>, FALSE) ELSE Path(u.segs, u.trail)

\* safePath: the normalized pathname. It begins with "/", so the replace of
\* leading "../" finds nothing.
SafePath(pathname) == Normalize(pathname)

\* FilePath as PUBLIC_DIR + pathname, nothing normalized.
FilePathConcat(pathname) == Path(ServePublicDir \o pathname.segs, pathname.trail)

\* filePath = path.join(PUBLIC_DIR, safePath)
FilePath(pathname) == Join(Path(ServePublicDir, FALSE), SafePath(pathname))

\* filePath.startsWith(PUBLIC_DIR)
StartsWithPublicDir(filePath) ==
    StartsAt(PathStr(filePath), 1, PathStr(Path(ServePublicDir, FALSE)))

\* potentialIdx, and finalPath for a directory
IndexOf(filePath) == Join(filePath, Path(<<"index.html">>, FALSE))

\* finalPath as the fs.stat callback computes it.
FinalPath(tree, filePath, st) ==
    IF st = "dir" THEN IndexOf(filePath)
    ELSE IF st = "ENOENT" /\ ~HasExtName(filePath) /\ ExistsSync(tree, IndexOf(filePath))
         THEN IndexOf(filePath)
    ELSE filePath

\* notFoundPath
NotFoundPath == Join(Path(ServePublicDir, FALSE), Path(<<"404.html">>, FALSE))

NewRequest(u) ==
    [ url |-> u, pc |-> "new", filePath |-> Path(<<>>, FALSE), stat |-> "",
      finalPath |-> Path(<<>>, FALSE), heads |-> <<>>, ends |-> <<>>, reads |-> {} ]

\* res.writeHead(status, ...); res.end(body)
Respond(req, status, body) ==
    [ req EXCEPT !.heads = Append(@, status), !.ends = Append(@, body), !.pc = "done" ]

Requests == DOMAIN call.reqs

Update(r, req) ==
    /\ call' = [call EXCEPT !.reqs[r] = req]
    /\ UNCHANGED buildVars

\* The synchronous part of handleRequest. An exception thrown here is caught
\* by nothing and ends the process.
HandleRequest(r) ==
    LET req == call.reqs[r] IN
    /\ ~call.crashed
    /\ req.pc = "new"
    /\ IF PathnameIsNull(req.url)
       THEN /\ call' = [call EXCEPT !.crashed = TRUE]
            /\ UNCHANGED buildVars
       ELSE LET filePath == FilePath(Pathname(req.url)) IN
            IF ~StartsWithPublicDir(filePath)
            THEN Update(r, Respond(req, 403, "Forbidden"))
            ELSE Update(r, [req EXCEPT !.filePath = filePath, !.pc = "stat"])

\* fs.stat(filePath) is carried out.
Stat(r) ==
    LET req == call.reqs[r] IN
    /\ ~call.crashed
    /\ req.pc = "stat"
    /\ \E st \in StatResults(call.tree, req.filePath) :
          Update(r, [req EXCEPT !.stat = st, !.pc = "statcb"])

\* The fs.stat callback: finalPath is chosen and fs.readFile issued.
StatCallback(r) ==
    LET req == call.reqs[r] IN
    /\ ~call.crashed
    /\ req.pc = "statcb"
    /\ Update(r, [req EXCEPT !.finalPath = FinalPath(call.tree, req.filePath, req.stat),
                             !.pc = "read"])

\* fs.readFile(finalPath) and its callback.
ReadCallback(r) ==
    LET req == call.reqs[r] IN
    /\ ~call.crashed
    /\ req.pc = "read"
    /\ \E out \in ReadResults(call.tree, req.finalPath) :
          CASE out = "data" ->
                 Update(r, Respond([req EXCEPT !.reads = @ \cup {Resolve(req.finalPath)}],
                                   200, Content(req.finalPath)))
            [] out = "ENOENT" -> Update(r, [req EXCEPT !.pc = "read404"])
            [] OTHER -> Update(r, Respond(req, 500, "Internal Server Error"))

\* fs.readFile(notFoundPath) and its callback.
Read404Callback(r) ==
    LET req == call.reqs[r] IN
    /\ ~call.crashed
    /\ req.pc = "read404"
    /\ \E out \in ReadResults(call.tree, NotFoundPath) :
          IF out = "data"
          THEN Update(r, Respond([req EXCEPT !.reads = @ \cup {Resolve(NotFoundPath)}],
                                 404, Content(NotFoundPath)))
          ELSE Update(r, Respond(req, 404, "<h1>404 Not Found</h1>"))

\* A build run next to the server finishes: the output tree appears.
Rebuild ==
    /\ ~call.crashed
    /\ call.tree = Unbuilt(call.tree.flaky)
    /\ call' = [call EXCEPT !.tree = Built({"a.md"}, call.tree.flaky), !.rebuilt = TRUE]
    /\ UNCHANGED buildVars

Step(r) ==
    \/ HandleRequest(r)
    \/ Stat(r)
    \/ StatCallback(r)
    \/ ReadCallback(r)
    \/ Read404Callback(r)

ServeNext ==
    \/ \E r \in Requests : HandleRequest(r)
    \/ \E r \in Requests : Stat(r)
    \/ \E r \in Requests : StatCallback(r)
    \/ \E r \in Requests : ReadCallback(r)
    \/ \E r \in Requests : Read404Callback(r)
    \/ Rebuild

\* The segments request paths are made of.
Segments == {"..", "posts", "a", "my%20post", "index.html", "secret.txt"}

SegLists == UNION { [1 .. n -> Segments] : n \in 1 .. MaxSegs }

Urls ==
    { OriginForm(segs, trail) : segs \in SegLists, trail \in BOOLEAN }
        \cup { OriginForm(<<>>, TRUE), AbsoluteForm }

Trees ==
    { Unbuilt(flaky) : flaky \in BOOLEAN }
        \cup { Built(sources, flaky) :
                 sources \in {{"a.md"}, {"a.md", "my post.md"}}, flaky \in BOOLEAN }

\* One request against one disk.
ServeInit ==
    /\ NoBuild
    /\ \E u \in Urls, tree \in Trees :
          call = [ fn |-> "handleRequest", tree |-> tree, rebuilt |-> FALSE,
                   crashed |-> FALSE, reqs |-> [r \in {1} |-> NewRequest(u)] ]

ServeSpec == ServeInit /\ [][ServeNext]_vars

(***************************************************************************)
(* Claims about the preview server.                                        *)
(***************************************************************************)
Served == call.fn = "handleRequest"
Answered(req) == req.pc = "done"
StatusOf(req) == req.heads[1]
BodyOfResponse(req) == req.ends[1]

\* The file lies in the output directory or below it.
InsidePublicDir(q) ==
    /\ Len(q) >= Len(ServePublicDir)
    /\ SubSeq(q, 1, Len(ServePublicDir)) = ServePublicDir

\* C28: whatever the request, the files the server reads lie inside
\* PUBLIC_DIR.
C28_ReadsInsidePublicDir ==
    Served => \A r \in Requests : \A q \in call.reqs[r].reads : InsidePublicDir(q)

\* A request whose path climbs with ".." and that was answered with a file.
C28_Witness ==
    /\ Served
    /\ \E r \in Requests :
          /\ Answered(call.reqs[r])
          /\ call.reqs[r].url.segs # <<>>
          /\ call.reqs[r].url.segs[1] = ".."
          /\ call.reqs[r].reads # {}
          /\ StatusOf(call.reqs[r]) = 200

\* The file or directory a request's path names on the disk.
Target(u) == Resolve(FilePath(Pathname(u)))

\* The request's path names a file, or a directory that holds index.html.
MapsToFile(tree, u) ==
    \/ Target(u) \in tree.files
    \/ Target(u) \in tree.dirs /\ Append(Target(u), "index.html") \in tree.files

\* 404.html is there and can be read, and was so all along.
NotFoundPageReadable ==
    /\ Resolve(NotFoundPath) \in call.tree.files
    /\ ~call.tree.flaky
    /\ ~call.rebuilt

\* C22: on a disk that does not change, a request whose path maps to no
\* existing file, and to no directory holding index.html, is answered 404,
\* with the body of 404.html when that page is readable.
C22_MissingIs404 ==
    (Served /\ ~call.rebuilt) => \A r \in Requests :
        LET req == call.reqs[r] IN
        (Answered(req) /\ ~MapsToFile(call.tree, req.url)) =>
            /\ StatusOf(req) = 404
            /\ NotFoundPageReadable => BodyOfResponse(req) = Content(NotFoundPath)

\* The path, appended to PUBLIC_DIR as it stands, climbs out of PUBLIC_DIR.
ClimbsAbovePublicDir(u) == ~InsidePublicDir(Resolve(FilePathConcat(Pathname(u))))

\* C23: a request whose path holds ".." segments that climb above the output
\* root is answered 403.
C23_TraversalIs403 ==
    Served => \A r \in Requests :
        LET req == call.reqs[r] IN
        (Answered(req) /\ ClimbsAbovePublicDir(req.url)) => StatusOf(req) = 403

\* The request path segment a client sends for a name: what a URL cannot
\* hold is percent-encoded.
RECURSIVE UrlSegment(_)
UrlSegment(name) ==
    IF name = "" THEN ""
    ELSE (IF SubSeq(name, 1, 1) = " " THEN "%20" ELSE SubSeq(name, 1, 1))
             \o UrlSegment(SubSeq(name, 2, Len(name)))

ServesFile(req, file) ==
    /\ StatusOf(req) = 200
    /\ BodyOfResponse(req) = Content(Path(file, FALSE))

\* C24: on a disk that reads without error, "/" serves index.html, an
\* existing directory serves its index.html, a nonexistent extensionless
\* path serves <path>/index.html when that exists, and after a successful
\* build posts/<slug>/ and posts/<slug> are answered 200 with the page of
\* that post, for every post.
C24_DirectoryIndex ==
    (Served /\ ~call.tree.flaky) => \A r \in Requests :
        LET req == call.reqs[r] IN
        Answered(req) =>
            /\ (~call.rebuilt /\ req.url = OriginForm(<<>>, TRUE)
                    /\ Append(ServePublicDir, "index.html") \in call.tree.files)
                 => ServesFile(req, Append(ServePublicDir, "index.html"))
            /\ (~call.rebuilt /\ Target(req.url) \in call.tree.dirs
                    /\ Append(Target(req.url), "index.html") \in call.tree.files)
                 => ServesFile(req, Append(Target(req.url), "index.html"))
            /\ (req.stat = "ENOENT" /\ ~HasExtName(req.filePath)
                    /\ req.finalPath = IndexOf(req.filePath) /\ req.heads # <<403>>)
                 => ServesFile(req, Resolve(req.finalPath))
            /\ \A sources \in {{"a.md"}, {"a.md", "my post.md"}} :
                 (~call.rebuilt /\ call.tree = Built(sources, FALSE)) =>
                     \A f \in sources :
                         req.url.segs = <<POSTS_SUBDIR, UrlSegment(SlugOf(f))>>
                             => ServesFile(req, ProjectRoot \o PostOutput(SlugOf(f)))

(***************************************************************************)
(* Requests in flight together.                                            *)
(***************************************************************************)
\* The number of requests the server has accepted and not yet answered.
NumRequests == 2

ConcurrentUrls ==
    { OriginForm(<<>>, TRUE), OriginForm(<<"posts", "a">>, FALSE),
      OriginForm(<<"index.html", "a">>, FALSE), AbsoluteForm }

ConcurrentInit ==
    /\ NoBuild
    /\ \E us \in [1 .. NumRequests -> ConcurrentUrls],
          tree \in { Unbuilt(flaky) : flaky \in BOOLEAN }
                       \cup { Built({"a.md"}, flaky) : flaky \in BOOLEAN } :
          call = [ fn |-> "handleRequest", tree |-> tree, rebuilt |-> FALSE,
                   crashed |-> FALSE,
                   reqs |-> [r \in 1 .. NumRequests |-> NewRequest(us[r])] ]

\* The event loop runs every handler and callback that is due, and every
\* file system call that was issued completes.
ConcurrentSpec ==
    /\ ConcurrentInit
    /\ [][ServeNext]_vars
    /\ \A r \in 1 .. NumRequests : WF_vars(Step(r))

\* What was sent for a request so far is at most one status line and one
\* body end, in that order, with a status the handler knows.
AtMostOneResponse(req) ==
    /\ Len(req.heads) <= 1
    /\ Len(req.ends) <= Len(req.heads)
    /\ \A k \in 1 .. Len(req.heads) : req.heads[k] \in {200, 403, 404, 500}
    /\ Answered(req) => Len(req.heads) = 1 /\ Len(req.ends) = 1

\* C29: every request is answered exactly once: never more than one status
\* line and one body end, the status 200, 403, 404 or 500, and the answer
\* comes eventually, whatever fs.stat and fs.readFile report and however the
\* callbacks of the requests interleave.
C29_ExactlyOneResponse ==
    /\ [](\A r \in 1 .. NumRequests : AtMostOneResponse(call.reqs[r]))
    /\ \A r \in 1 .. NumRequests : <>Answered(call.reqs[r])
====
